---------------------------- MODULE Spec2Model ----------------------------
(***************************************************************************)
(* MicrosoftServicesClient (dynamics365_client/main.py): the four CRUD     *)
(* operations and the shared _make_request they funnel into.               *)
(*                                                                         *)
(* Text that the code concatenates (environment URL, item, item id, path,  *)
(* URL) is a sequence of one-character strings, so that concatenation is   *)
(* \o and two texts are equal exactly when they are the same characters.   *)
(* Opaque text (tokens, credentials, header values) is a TLA+ string.      *)
(* A Python Optional is None == <<>> or Some(x) == <<x>>.                  *)
(***************************************************************************)
EXTENDS Integers, Sequences, FiniteSets, TLC

VARIABLES
    \* the instance attributes set by __init__
    disable_token_refresh, environment_url, access_token,
    client_id, client_secret, tenant_id, email, password,
    \* the call in progress: position, entry point and its arguments
    pc, op, args,
    \* the locals of _make_request
    path, method, payload, headers, token, response,
    \* what the caller gets back
    result,
    \* observation of the collaborators: the authentication provider's
    \* invocations and the transport's requests of the current call, and
    \* their totals over all calls
    authCalls, requests, ncalls, authCount, httpCount

vars == <<disable_token_refresh, environment_url, access_token,
          client_id, client_secret, tenant_id, email, password,
          pc, op, args, path, method, payload, headers, token, response,
          result, authCalls, requests, ncalls, authCount, httpCount>>

config == <<disable_token_refresh, environment_url, access_token,
            client_id, client_secret, tenant_id, email, password>>

\* the number of calls a behaviour makes
MaxCalls == 2

None == <<>>
Some(x) == <<x>>

-----------------------------------------------------------------------------
(* Inputs *)

EnvironmentUrls == { <<"h", "/">>, <<"h">> }

Items == { <<"a", "c", "c">>, <<"c", "t">> }

\* item ids, the empty string among them
ItemIds == { <<"7">>, <<>> }

\* the paths and method strings a caller of _make_request passes
DirectPaths == { <<"a", "c", "c">> }
Methods == { "get", "post", "patch", "delete" }

\* request payloads (dicts handed to json=), by name
Payloads == { "payload-A", "payload-B" }

\* JSON values: t is the Python type json() yields, s the text of a value
\* that is not a dict, d the items of a dict
Json(t, s, d) == [t |-> t, s |-> s, d |-> d]
JList(s) == Json("list", s, <<>>)
JStr(s) == Json("str", s, <<>>)
JNull == Json("NoneType", "null", <<>>)
JDict(d) == Json("dict", "", d)

JsonBodies ==
    { JDict([k \in {"value"} |-> JList("[{name: A}]")]),
      JDict([k \in {"value"} |-> JNull]),
      JDict([k \in {"foo"} |-> JStr("bar")]),
      JDict(<<>>),
      JList("[1, 2]"),
      JNull }

\* response bodies: json |-> None is a body json() cannot decode
Bodies ==
    { [text |-> "", json |-> None], [text |-> "<html>", json |-> None] }
    \cup { [text |-> "json", json |-> Some(j)] : j \in JsonBodies }

StatusCodes == { 100, 200, 299, 304, 400, 404, 500, 599 }

Responses == [status_code : StatusCodes, body : Bodies]

\* tokens the authentication provider may hand back
FreshTokens == { "fresh-1", "fresh-2" }

\* header dicts a caller of _make_request may pass
HeaderDicts ==
    { <<>>,
      [k \in {"Accept"} |-> Some("application/json")],
      [k \in {"Authorization"} |-> Some("caller-token")] }

\* __init__'s argument lists
Credentials ==
    { [access_token |-> None, client_id |-> None, client_secret |-> None,
       tenant_id |-> None, email |-> None, password |-> None],
      [access_token |-> Some("static-token"), client_id |-> None,
       client_secret |-> None, tenant_id |-> None, email |-> None,
       password |-> None],
      [access_token |-> None, client_id |-> Some("cid"),
       client_secret |-> Some("secret"), tenant_id |-> Some("tid"),
       email |-> Some("u@x.io"), password |-> Some("pw")],
      [access_token |-> Some("static-token"), client_id |-> Some("cid"),
       client_secret |-> Some("secret"), tenant_id |-> Some("tid"),
       email |-> Some("u@x.io"), password |-> Some("pw")] }

NoArgs == [item |-> None, item_id |-> None, payload |-> None, headers |-> None]
NoResult == [kind |-> "none", exc |-> "", status |-> 0, value |-> None]
Return(v) == [kind |-> "return", exc |-> "", status |-> 0, value |-> Some(v)]
Raise(e, s) == [kind |-> "raise", exc |-> e, status |-> s, value |-> None]

-----------------------------------------------------------------------------
(* Pure parts of the code *)

\* Python truthiness of an Optional[str]: None and "" are false
Truthy(o) == o # None /\ o[1] # <<>>

\* f'{item}({item_id})'; a None id formats as the text None
Format(o) == IF o = None THEN <<"N", "o", "n", "e">> ELSE o[1]
ItemPath(item, item_id) == item \o <<"(">> \o Format(item_id) \o <<")">>

\* get: 'if item_id: item = f"{item}({item_id})"'
GetPath(item, item_id) ==
    IF Truthy(item_id) THEN ItemPath(item, item_id) ELSE item

ApiPrefix == <<"a", "p", "i", "/", "d", "a", "t", "a", "/", "v", "9", ".", "0", "/">>

\* a base URL that puts a separator after the environment URL
generate_base_url_separator(env, item) == env \o <<"/">> \o ApiPrefix \o item

\* _generate_base_url: f"{self.environment_url}api/data/v9.0/{item}"
generate_base_url(env, item) == env \o ApiPrefix \o item

\* the scopes list of _generate_user_token
UserImpersonation ==
    <<"u", "s", "e", "r", "_", "i", "m", "p", "e", "r", "s", "o", "n", "a",
      "t", "i", "o", "n">>
Scopes(env) == << env \o UserImpersonation >>

\* headers.setdefault('Authorization', access_token): the caller's entry wins
SetDefaultHeaders(h, t) ==
    [k \in DOMAIN h \cup {"Authorization"} |->
        IF k \in DOMAIN h THEN h[k] ELSE t]

\* headers.update({'Authorization': access_token}) on a dict
UpdateHeaders(h, t) ==
    [k \in DOMAIN h \cup {"Authorization"} |->
        IF k = "Authorization" THEN t ELSE h[k]]

\* the verb requests puts on the wire for the method string it is given
Verb(m) ==
    CASE m = "get" -> "GET"
      [] m = "post" -> "POST"
      [] m = "patch" -> "PATCH"
      [] m = "delete" -> "DELETE"

\* the call the code makes on the transport: requests.get(url, headers=...)
\* passes no json at all, requests.request passes json=payload
BuildRequest(m, url, p, h) ==
    IF m = "get"
    THEN [method |-> "GET", url |-> url, json |-> None, headers |-> h]
    ELSE [method |-> Verb(m), url |-> url, json |-> p, headers |-> h]

\* a status check that raises for everything outside 2xx
RaisesForNon2xx(status_code) == status_code < 200 \/ status_code > 299

\* response.raise_for_status(): HTTPError for 4xx and 5xx
RaisesForStatus(status_code) == status_code >= 400 /\ status_code < 600

\* the dict substituted for a body json() cannot decode
Placeholder == JDict([k \in {"value"} |-> JStr("request successful")])

\* a fallback dict that has no "value" item
JsonResponseMessage(body) ==
    IF body.json = None
    THEN JDict([k \in {"message"} |-> JStr("request successful")])
    ELSE body.json[1]

\* try: response.json()  except JSONDecodeError: {"value": "request successful"}
JsonResponse(body) == IF body.json = None THEN Placeholder ELSE body.json[1]

\* json_response.get("value"): no default, a missing item yields None
UnwrapNoDefault(j) ==
    IF j.t # "dict" THEN Raise("AttributeError", 0)
    ELSE IF "value" \in DOMAIN j.d THEN Return(j.d["value"])
    ELSE Return(JNull)

\* json_response.get("value", json_response): only a dict has .get
Unwrap(j) ==
    IF j.t # "dict" THEN Raise("AttributeError", 0)
    ELSE IF "value" \in DOMAIN j.d THEN Return(j.d["value"])
    ELSE Return(j)

\* lines 113-122 on a response
HandleResponse(r) ==
    IF RaisesForStatus(r.status_code) THEN Raise("HTTPError", r.status_code)
    ELSE Unwrap(JsonResponse(r.body))

-----------------------------------------------------------------------------
Init ==
    /\ disable_token_refresh \in BOOLEAN
    /\ environment_url \in EnvironmentUrls
    /\ \E c \in Credentials :
        /\ access_token = c.access_token
        /\ client_id = c.client_id
        /\ client_secret = c.client_secret
        /\ tenant_id = c.tenant_id
        /\ email = c.email
        /\ password = c.password
    /\ pc = "idle"
    /\ op = "none"
    /\ args = NoArgs
    /\ path = <<>>
    /\ method = "get"
    /\ payload = None
    /\ headers = None
    /\ token = None
    /\ response = None
    /\ result = NoResult
    /\ authCalls = <<>>
    /\ requests = <<>>
    /\ ncalls = 0
    /\ authCount = 0
    /\ httpCount = 0

\* a call may start when none is in progress
CanCall == pc = "idle" /\ ncalls < MaxCalls

\* entering _make_request: its locals are fresh, and so is the observation
\* of the current call
Begin ==
    /\ pc' = "token"
    /\ token' = None
    /\ response' = None
    /\ result' = NoResult
    /\ authCalls' = <<>>
    /\ requests' = <<>>
    /\ ncalls' = ncalls + 1
    /\ UNCHANGED <<config, authCount, httpCount>>

\* get(item, item_id=None): self._make_request(item)
get ==
    \E item \in Items, item_id \in {None} \cup {Some(i) : i \in ItemIds} :
        /\ CanCall
        /\ op' = "get"
        /\ args' = [NoArgs EXCEPT !.item = Some(item), !.item_id = item_id]
        /\ path' = GetPath(item, item_id)
        /\ method' = "get"
        /\ payload' = None
        /\ headers' = None
        /\ Begin

\* create(item, payload): self._make_request(item, method="post", payload=payload)
create ==
    \E item \in Items, p \in Payloads :
        /\ CanCall
        /\ op' = "create"
        /\ args' = [NoArgs EXCEPT !.item = Some(item), !.payload = Some(p)]
        /\ path' = item
        /\ method' = "post"
        /\ payload' = Some(p)
        /\ headers' = None
        /\ Begin

\* update(item, item_id, payload)
update ==
    \E item \in Items, item_id \in ItemIds, p \in Payloads :
        /\ CanCall
        /\ op' = "update"
        /\ args' = [NoArgs EXCEPT !.item = Some(item), !.item_id = Some(item_id),
                                  !.payload = Some(p)]
        /\ path' = ItemPath(item, Some(item_id))
        /\ method' = "patch"
        /\ payload' = Some(p)
        /\ headers' = None
        /\ Begin

\* delete(item, item_id)
delete ==
    \E item \in Items, item_id \in ItemIds :
        /\ CanCall
        /\ op' = "delete"
        /\ args' = [NoArgs EXCEPT !.item = Some(item), !.item_id = Some(item_id)]
        /\ path' = ItemPath(item, Some(item_id))
        /\ method' = "delete"
        /\ payload' = None
        /\ headers' = None
        /\ Begin

\* _make_request(path, method, payload, headers) called with a headers dict
make_request ==
    \E p \in DirectPaths, m \in Methods, pl \in {None, Some("payload-A")},
       h \in HeaderDicts :
        /\ CanCall
        /\ op' = "_make_request"
        /\ args' = [NoArgs EXCEPT !.item = Some(p), !.payload = pl,
                                  !.headers = Some(h)]
        /\ path' = p
        /\ method' = m
        /\ payload' = pl
        /\ headers' = Some(h)
        /\ Begin

\* the AuthClient(...) construction and authenticate_email_password(...)
\* call, with what the provider did
AuthInvocation(outcome) ==
    [client_id |-> client_id, client_secret |-> client_secret,
     tenant_id |-> tenant_id, scopes |-> Scopes(environment_url),
     mode |-> "b2c", email |-> email, password |-> password,
     outcome |-> outcome]

\* a token kept from the first call on
UsesProviderCached == ~disable_token_refresh /\ authCount = 0

\* 'if not self.disable_token_refresh'
UsesProvider == ~disable_token_refresh

\* lines 94-98 with a provider that returns a token
generate_user_token ==
    /\ pc = "token"
    /\ UsesProvider
    /\ authCalls' = Append(authCalls, AuthInvocation("token"))
    /\ authCount' = authCount + 1
    /\ \E t \in FreshTokens : token' = Some(t)
    /\ pc' = "dispatch"
    /\ UNCHANGED <<config, op, args, path, method, payload, headers, response,
                   result, requests, ncalls, httpCount>>

\* a provider failure that is swallowed: the call goes on without a token
generate_user_token_swallowed ==
    /\ pc = "token"
    /\ UsesProvider
    /\ authCalls' = Append(authCalls, AuthInvocation("raises"))
    /\ authCount' = authCount + 1
    /\ pc' = "dispatch"
    /\ UNCHANGED <<config, op, args, path, method, payload, headers, token,
                   response, result, requests, ncalls, httpCount>>

\* lines 94-98 with a provider that raises: nothing catches the exception
generate_user_token_fails ==
    /\ pc = "token"
    /\ UsesProvider
    /\ authCalls' = Append(authCalls, AuthInvocation("raises"))
    /\ authCount' = authCount + 1
    /\ result' = Raise("AuthError", 0)
    /\ pc' = "idle"
    /\ UNCHANGED <<config, op, args, path, method, payload, headers, token,
                   response, requests, ncalls, httpCount>>

\* 'else: access_token = self.access_token'
static_token ==
    /\ pc = "token"
    /\ ~UsesProvider
    /\ token' = access_token
    /\ pc' = "dispatch"
    /\ UNCHANGED <<config, op, args, path, method, payload, headers, response,
                   result, authCalls, requests, ncalls, authCount, httpCount>>

\* line 101 on headers=None: 'NoneType' object has no attribute 'update'
update_headers_fails ==
    /\ pc = "dispatch"
    /\ headers = None
    /\ result' = Raise("AttributeError", 0)
    /\ pc' = "idle"
    /\ UNCHANGED <<config, op, args, path, method, payload, headers, token,
                   response, authCalls, requests, ncalls, authCount, httpCount>>

\* lines 101-110: the header update, the URL and the call on the transport
dispatch ==
    /\ pc = "dispatch"
    /\ headers # None
    /\ headers' = Some(UpdateHeaders(headers[1], token))
    /\ requests' = Append(requests,
            BuildRequest(method, generate_base_url(environment_url, path),
                         payload, UpdateHeaders(headers[1], token)))
    /\ httpCount' = httpCount + 1
    /\ pc' = "response"
    /\ UNCHANGED <<config, op, args, path, method, payload, token, response,
                   result, authCalls, ncalls, authCount>>

\* the transport raises (no connection): the exception leaves the call
transport_fails ==
    /\ pc = "response"
    /\ result' = Raise("ConnectionError", 0)
    /\ pc' = "idle"
    /\ UNCHANGED <<config, op, args, path, method, payload, headers, token,
                   response, authCalls, requests, ncalls, authCount, httpCount>>

\* the transport returns a response: lines 113-122
respond ==
    /\ pc = "response"
    /\ \E r \in Responses :
        /\ response' = Some(r)
        /\ result' = HandleResponse(r)
    /\ pc' = "idle"
    /\ UNCHANGED <<config, op, args, path, method, payload, headers, token,
                   authCalls, requests, ncalls, authCount, httpCount>>

Next ==
    \/ get
    \/ create
    \/ update
    \/ delete
    \/ make_request
    \/ generate_user_token
    \/ generate_user_token_fails
    \/ static_token
    \/ update_headers_fails
    \/ dispatch
    \/ transport_fails
    \/ respond

Spec == Init /\ [][Next]_vars

-----------------------------------------------------------------------------
(* Properties *)

\* a call has come back to its caller
Done == pc = "idle" /\ ncalls > 0

PublicOps == { "get", "create", "update", "delete" }

\* the current call's token resolution did not raise
TokenResolved == result.exc # "AuthError"

\* the transport answered the current call with a 2xx response
Answered == Done /\ response # None
Successful == Answered /\ response[1].status_code \in 200..299

\* C1: every call of a public operation whose token resolution succeeds
\* dispatches exactly one HTTP request.
C1_ExactlyOneRequestPerCall ==
    (Done /\ op \in PublicOps /\ TokenResolved) => Len(requests) = 1

\* C2: get(r, i) issues a GET to path r(i), get(r, None) a GET to path r,
\* with no payload.
C2_GetIssuesGet ==
    (Done /\ op = "get" /\ TokenResolved) =>
        /\ Len(requests) = 1
        /\ requests[1].method = "GET"
        /\ requests[1].json = None
        /\ requests[1].url =
             generate_base_url(environment_url,
                 IF args.item_id = None THEN args.item[1]
                 ELSE args.item[1] \o <<"(">> \o args.item_id[1] \o <<")">>)

\* C3: create(r, p) is a POST to r with body p, update(r, i, p) a PATCH to
\* r(i) with body p, delete(r, i) a DELETE to r(i) with no body.
C3_ModifyingRequests ==
    (Done /\ op \in {"create", "update", "delete"} /\ TokenResolved) =>
        /\ Len(requests) = 1
        /\ requests[1].method =
             (CASE op = "create" -> "POST" [] op = "update" -> "PATCH"
                [] op = "delete" -> "DELETE")
        /\ requests[1].json = (IF op = "delete" THEN None ELSE args.payload)
        /\ requests[1].url =
             generate_base_url(environment_url,
                 IF op = "create" THEN args.item[1]
                 ELSE args.item[1] \o <<"(">> \o args.item_id[1] \o <<")">>)

\* C4: with disable_token_refresh set, the authentication provider is never
\* invoked and every dispatched request carries the configured access token,
\* verbatim, as its Authorization header.
C4_StaticTokenVerbatim ==
    disable_token_refresh =>
        /\ authCount = 0
        /\ authCalls = <<>>
        /\ \A i \in 1..Len(requests) :
            /\ "Authorization" \in DOMAIN requests[i].headers
            /\ requests[i].headers["Authorization"] = access_token

\* C4's case: refresh disabled, a token configured, and a request dispatched
\* for a caller that passed an Authorization entry of its own
C4_Witness ==
    /\ disable_token_refresh
    /\ Done
    /\ access_token = Some("static-token")
    /\ args.headers = Some([k \in {"Authorization"} |-> Some("caller-token")])
    /\ Len(requests) = 1

\* C5: with disable_token_refresh clear, each call invokes the provider
\* exactly once, with the configured client id, client secret, tenant id,
\* email and password; after n calls it has been invoked n times.
C5_OneAuthenticationPerCall ==
    ~disable_token_refresh =>
        /\ pc = "token" => authCalls = <<>> /\ authCount = ncalls - 1
        /\ pc # "token" => authCount = ncalls
        /\ (pc # "token" /\ ncalls > 0) =>
            /\ Len(authCalls) = 1
            /\ authCalls[1].client_id = client_id
            /\ authCalls[1].client_secret = client_secret
            /\ authCalls[1].tenant_id = tenant_id
            /\ authCalls[1].email = email
            /\ authCalls[1].password = password

\* C5's case: a second call has authenticated again
C5_Witness ==
    /\ ~disable_token_refresh
    /\ Done
    /\ ncalls >= 2
    /\ authCount = ncalls
    /\ authCalls[1].outcome = "token"

\* C6 as stated: every successful response whose body parses yields the
\* body's value item when it has one and the whole body otherwise, a body
\* that is not an object included.
C6_UnwrapEveryBody ==
    (Successful /\ response[1].body.json # None) =>
        LET j == response[1].body.json[1] IN
        result = IF j.t = "dict" /\ "value" \in DOMAIN j.d
                 THEN Return(j.d["value"]) ELSE Return(j)

\* C6 amended: a successful response whose body parses to a JSON object
\* yields the object's value item when it has one and the whole object
\* otherwise; a parsed body that is not an object makes the call raise
\* AttributeError.
C6_UnwrapObjects ==
    (Successful /\ response[1].body.json # None) =>
        LET j == response[1].body.json[1] IN
        /\ (j.t = "dict" /\ "value" \in DOMAIN j.d) => result = Return(j.d["value"])
        /\ (j.t = "dict" /\ "value" \notin DOMAIN j.d) => result = Return(j)
        /\ j.t # "dict" => result = Raise("AttributeError", 0)

\* C6's case: an object without a value item came back whole
C6_Witness ==
    /\ Successful
    /\ response[1].body.json = Some(JDict([k \in {"foo"} |-> JStr("bar")]))
    /\ result.kind = "return"

\* C7 as stated: a successful response with no parseable body returns the
\* placeholder object {"value": "request successful"}.
C7_ReturnsPlaceholderObject ==
    (Successful /\ response[1].body.json = None) =>
        result = Return(JDict([k \in {"value"} |-> JStr("request successful")]))

\* C7 amended: a successful response with no parseable body does not raise
\* and returns the string "request successful", the value item of the
\* placeholder object.
C7_ReturnsPlaceholderValue ==
    (Successful /\ response[1].body.json = None) =>
        result = Return(JStr("request successful"))

\* C7's case: a 2xx response with an empty body has been handled
C7_Witness ==
    /\ Successful
    /\ response[1].body = [text |-> "", json |-> None]
    /\ result.kind = "return"

\* C8 as stated: every status outside 200..299 fails with an error carrying
\* the status, and no status in 200..299 fails on status.
C8_Non2xxFails ==
    Answered =>
        LET sc == response[1].status_code IN
        /\ sc \notin 200..299 => result = Raise("HTTPError", sc)
        /\ sc \in 200..299 => result.exc # "HTTPError"

\* C8 amended: every status in 400..599 fails with an error carrying the
\* status and returns no value; no other status (1xx, 2xx, 3xx) fails on
\* status.
C8_ClientAndServerErrorsFail ==
    Answered =>
        LET sc == response[1].status_code IN
        /\ sc \in 400..599 => result = Raise("HTTPError", sc)
        /\ sc \notin 400..599 => result.exc # "HTTPError"

\* C8's case: a 404 has been raised to the caller
C8_Witness ==
    /\ Answered
    /\ response[1].status_code = 404
    /\ result.kind = "raise"
    /\ result.status = 404

\* C9 as stated: the URL is the environment URL, "/api/data/v9.0/" and the
\* path.
C9_UrlWithSeparator ==
    \A i \in 1..Len(requests) :
        requests[i].url =
            environment_url
            \o <<"/", "a", "p", "i", "/", "d", "a", "t", "a", "/", "v", "9", ".", "0", "/">>
            \o path

\* C9 amended: the URL is the environment URL, "api/data/v9.0/" (nothing is
\* put between the two) and the path.
C9_UrlByConcatenation ==
    \A i \in 1..Len(requests) :
        requests[i].url =
            environment_url
            \o <<"a", "p", "i", "/", "d", "a", "t", "a", "/", "v", "9", ".", "0", "/">>
            \o path

\* C9's case: a request went out for an environment URL without a trailing
\* separator
C9_Witness ==
    /\ Len(requests) = 1
    /\ environment_url = <<"h">>
    /\ path = <<"a", "c", "c">>

\* C10: token resolution precedes the dispatch; when the provider raises,
\* the call ends with that error and no request has been made for it.
C10_AuthFailureAborts ==
    /\ (\E i \in 1..Len(authCalls) : authCalls[i].outcome = "raises") =>
        /\ pc = "idle"
        /\ result = Raise("AuthError", 0)
        /\ requests = <<>>
        /\ response = None
    /\ (requests # <<>> /\ ~disable_token_refresh) =>
        /\ Len(authCalls) = 1
        /\ authCalls[1].outcome = "token"
        /\ token # None

\* C10's case: the provider raised in a call that came with a headers dict
C10_Witness ==
    /\ Done
    /\ args.headers # None
    /\ Len(authCalls) = 1
    /\ authCalls[1].outcome = "raises"
    /\ result.exc = "AuthError"

=============================================================================
